---- MODULE Spec2Model ----
(***************************************************************************)
(* Model of tendermint/src/private_key.rs (PrivateKey, Ed25519Keypair:     *)
(* deserialize, serialize, public_key, to_seed, zeroize-on-drop) and of    *)
(* tendermint/src/block/parts.rs (Header and its derived ordering).        *)
(*                                                                         *)
(* Bytes are integers 0..255, strings are sequences of ASCII codes.        *)
(* Memory that outlives its owner (a dropped buffer, a returned function's *)
(* stack slot) is kept in the state so that its contents can be inspected. *)
(***************************************************************************)
EXTENDS Integers, Sequences, FiniteSets, TLC

\* private_key.rs:10  pub const ED25519_KEYPAIR_SIZE: usize = 64;
ED25519_KEYPAIR_SIZE == 64

\* Length of each half of the keypair (secret seed, then public key).
KeyHalf == ED25519_KEYPAIR_SIZE \div 2

(***************************************************************************)
(* Bounds of the model.                                                    *)
(***************************************************************************)
\* decoded payload lengths ED25519_KEYPAIR_SIZE - MaxUnder .. + MaxOver
MaxUnder == 2
MaxOver == 2
\* secret halves are drawn from the patterns 0..MaxSeed
MaxSeed == 1
\* public halves encode the y coordinates 0..MaxY
MaxY == 3
\* public_key() calls recorded per instance
MaxCalls == 2
\* parts headers: totals 0..MaxTotal, hash bytes 0..MaxHashByte
MaxTotal == 2
MaxHashByte == 1

Zeros(n) == [i \in 1..n |-> 0]

(***************************************************************************)
(* subtle_encoding::Base64 (standard alphabet, '=' padding), as used at    *)
(* private_key.rs:69-71 and :83.                                           *)
(***************************************************************************)
Base64_char(v) ==
    IF v < 26 THEN 65 + v
    ELSE IF v < 52 THEN 97 + (v - 26)
    ELSE IF v < 62 THEN 48 + (v - 52)
    ELSE IF v = 62 THEN 43
    ELSE 47

\* -1 for a character outside the alphabet
Base64_value(c) ==
    IF c >= 65 /\ c <= 90 THEN c - 65
    ELSE IF c >= 97 /\ c <= 122 THEN c - 71
    ELSE IF c >= 48 /\ c <= 57 THEN c + 4
    ELSE IF c = 43 THEN 62
    ELSE IF c = 47 THEN 63
    ELSE -1

RECURSIVE Base64_encode(_)
Base64_encode(bytes) ==
    IF Len(bytes) = 0 THEN <<>>
    ELSE IF Len(bytes) = 1 THEN
        << Base64_char(bytes[1] \div 4),
           Base64_char((bytes[1] % 4) * 16),
           61, 61 >>
    ELSE IF Len(bytes) = 2 THEN
        << Base64_char(bytes[1] \div 4),
           Base64_char((bytes[1] % 4) * 16 + bytes[2] \div 16),
           Base64_char((bytes[2] % 16) * 4),
           61 >>
    ELSE
        << Base64_char(bytes[1] \div 4),
           Base64_char((bytes[1] % 4) * 16 + bytes[2] \div 16),
           Base64_char((bytes[2] % 16) * 4 + bytes[3] \div 64),
           Base64_char(bytes[3] % 64) >>
        \o Base64_encode(SubSeq(bytes, 4, Len(bytes)))

\* number of '=' characters ending src (at most 2 count as padding)
Base64_padding(src) ==
    IF Len(src) >= 2 /\ src[Len(src)] = 61 /\ src[Len(src) - 1] = 61 THEN 2
    ELSE IF Len(src) >= 1 /\ src[Len(src)] = 61 THEN 1
    ELSE 0

Base64_decoded_len(src) == ((Len(src) - Base64_padding(src)) * 3) \div 4

\* the three bytes of one quad of 6-bit values
Base64_decode_3bytes(q) ==
    << q[1] * 4 + q[2] \div 16,
       (q[2] % 16) * 16 + q[3] \div 4,
       (q[3] % 4) * 64 + q[4] >>

\* the number of whole leading quads all of whose characters are in the alphabet
RECURSIVE Base64_good_quads(_)
Base64_good_quads(src) ==
    IF Len(src) < 4 THEN 0
    ELSE IF \E i \in 1..4 : Base64_value(src[i]) < 0 THEN 0
    ELSE 1 + Base64_good_quads(SubSeq(src, 5, Len(src)))

\* the bytes of n whole quads of alphabet characters
RECURSIVE Base64_decode_quads(_, _)
Base64_decode_quads(src, n) ==
    IF n = 0 THEN <<>>
    ELSE Base64_decode_3bytes([i \in 1..4 |-> Base64_value(src[i])])
         \o Base64_decode_quads(SubSeq(src, 5, Len(src)), n - 1)

\* the bytes of a whole string: the unpadded quads, then the padded tail
Base64_decode_all(src) ==
    LET pad  == Base64_padding(src)
        full == IF pad = 0 THEN Len(src) \div 4 ELSE Len(src) \div 4 - 1
        head == Base64_decode_quads(src, full)
        tail == IF pad = 0 THEN <<>>
                ELSE SubSeq(
                       Base64_decode_3bytes(
                         [i \in 1..4 |->
                            IF i > 4 - pad THEN 0
                            ELSE Base64_value(src[4 * full + i])]),
                       1, 3 - pad)
    IN  head \o tail

\* length a multiple of 4, at most two '=' and only at the end, every other
\* character in the alphabet
Base64_well_formed(src) ==
    /\ Len(src) % 4 = 0
    /\ \A i \in 1..(Len(src) - Base64_padding(src)) : Base64_value(src[i]) >= 0

Prefix(s, n) == SubSeq(s, 1, IF Len(s) < n THEN Len(s) ELSE n)

\* dst after a write of `bytes` at its start
Overwrite(dst, bytes) ==
    [i \in 1..Len(dst) |-> IF i <= Len(bytes) THEN bytes[i] ELSE dst[i]]

(* Base64::decode_to_slice(src, &mut dst): Ok(n) with the n decoded bytes   *)
(* written at the start of dst; Err when src is not well formed            *)
(* (EncodingInvalid) or when the decoded bytes do not fit dst              *)
(* (LengthInvalid).  What dst holds after an Err is not specified by the   *)
(* codec: `wrote` chooses between dst untouched and dst holding the bytes  *)
(* decoded before the error was found.                                     *)
Base64_decode_to_slice(src, dst, wrote) ==
    IF ~Base64_well_formed(src) THEN
        [ err |-> "EncodingInvalid", len |-> 0,
          dst |-> IF wrote
                  THEN Overwrite(dst,
                         Prefix(Base64_decode_quads(src, Base64_good_quads(src)),
                                Len(dst)))
                  ELSE dst ]
    ELSE IF Base64_decoded_len(src) > Len(dst) THEN
        [ err |-> "LengthInvalid", len |-> 0,
          dst |-> IF wrote
                  THEN Overwrite(dst, Prefix(Base64_decode_all(src), Len(dst)))
                  ELSE dst ]
    ELSE
        [ err |-> "none", len |-> Len(Base64_decode_all(src)),
          dst |-> Overwrite(dst, Base64_decode_all(src)) ]

(***************************************************************************)
(* zeroize: Zeroize::zeroize overwrites every byte with 0.                 *)
(***************************************************************************)
Zeroize(bytes) == Zeros(Len(bytes))

(***************************************************************************)
(* ed25519_dalek and signatory, as called at private_key.rs:45-49 and :60. *)
(***************************************************************************)
\* The y coordinates below 32 for which x^2 = (y^2 - 1) / (d*y^2 + 1) has a
\* root modulo 2^255 - 19 (d = -121665/121666): the encodings
\* CompressedEdwardsY::decompress accepts.
OnCurveY == {0, 1, 3, 4, 5, 6, 9, 10, 14, 15, 16, 18, 19, 21, 23, 24, 25, 26,
             27, 28, 29, 30}

\* the little-endian encoding of y < 256 with the sign bit of x clear
IsSmallY(bytes) == \A i \in 2..Len(bytes) : bytes[i] = 0

\* CompressedEdwardsY::decompress(..).is_some(), on the encodings of y < 32
CompressedEdwardsY_decompress_ok(bytes) ==
    CASE IsSmallY(bytes) /\ bytes[1] < 32 -> bytes[1] \in OnCurveY

\* ed25519_dalek::Keypair::from_bytes: the length, then SecretKey::from_bytes
\* (any 32 bytes) and PublicKey::from_bytes (a point that decompresses)
Keypair_from_bytes(bytes) ==
    IF Len(bytes) # ED25519_KEYPAIR_SIZE THEN
        [ err |-> "BytesLengthError", public |-> <<>> ]
    ELSE IF ~CompressedEdwardsY_decompress_ok(
               SubSeq(bytes, KeyHalf + 1, ED25519_KEYPAIR_SIZE)) THEN
        [ err |-> "PointDecompressionError", public |-> <<>> ]
    ELSE
        [ err |-> "none",
          public |-> SubSeq(bytes, KeyHalf + 1, ED25519_KEYPAIR_SIZE) ]

\* PublicKey::from_raw_ed25519: Some for 32 bytes
PublicKey_from_raw_ed25519(bytes) ==
    IF Len(bytes) = KeyHalf THEN [ some |-> TRUE, key |-> bytes ]
    ELSE [ some |-> FALSE, key |-> <<>> ]

\* ed25519::Seed::from_keypair: Some(the first half) for 64 bytes
Seed_from_keypair(bytes) ==
    IF Len(bytes) = ED25519_KEYPAIR_SIZE
    THEN [ some |-> TRUE, seed |-> SubSeq(bytes, 1, KeyHalf) ]
    ELSE [ some |-> FALSE, seed |-> <<>> ]

(***************************************************************************)
(* Ed25519Keypair                                                          *)
(***************************************************************************)
\* private_key.rs:44-50; panic: one of the two unwraps met an Err / a None
Ed25519Keypair_public_key(self) ==
    LET kp == Keypair_from_bytes(self)
    IN  IF kp.err # "none" THEN [ panic |-> TRUE, key |-> <<>> ]
        ELSE LET raw == PublicKey_from_raw_ed25519(kp.public)
             IN  IF ~raw.some THEN [ panic |-> TRUE, key |-> <<>> ]
                 ELSE [ panic |-> FALSE, key |-> raw.key ]

\* private_key.rs:53-62
Ed25519Keypair_to_seed(self) ==
    LET s == Seed_from_keypair(self)
    IN  IF ~s.some THEN [ panic |-> TRUE, seed |-> <<>> ]
        ELSE [ panic |-> FALSE, seed |-> s.seed ]

\* Ed25519Keypair_deserialize with `decoded_len > ED25519_KEYPAIR_SIZE` for
\* the length test: a short payload is accepted
Ed25519Keypair_deserialize_accepts_short(value, wrote) ==
    LET d == Base64_decode_to_slice(value, Zeros(ED25519_KEYPAIR_SIZE), wrote)
    IN  IF d.err # "none" THEN
            [ res |-> "InvalidEncoding", keypair |-> <<>>,
              string |-> Zeroize(value), keypair_bytes |-> d.dst ]
        ELSE IF d.len > ED25519_KEYPAIR_SIZE THEN
            [ res |-> "InvalidKeyLength", keypair |-> <<>>,
              string |-> Zeroize(value), keypair_bytes |-> d.dst ]
        ELSE
            [ res |-> "Ok", keypair |-> d.dst,
              string |-> Zeroize(value), keypair_bytes |-> d.dst ]

\* Ed25519Keypair_deserialize with the decode error dropped (unwrap_or(0)):
\* every failure is reported by the length test
Ed25519Keypair_deserialize_size_only(value, wrote) ==
    LET d == Base64_decode_to_slice(value, Zeros(ED25519_KEYPAIR_SIZE), wrote)
    IN  IF d.err # "none" \/ d.len # ED25519_KEYPAIR_SIZE THEN
            [ res |-> "InvalidKeyLength", keypair |-> <<>>,
              string |-> Zeroize(value), keypair_bytes |-> d.dst ]
        ELSE
            [ res |-> "Ok", keypair |-> d.dst,
              string |-> Zeroize(value), keypair_bytes |-> d.dst ]

(* private_key.rs:64-79.  res is "Ok", "InvalidEncoding" (the error        *)
(* "invalid Ed25519 keypair") or "InvalidKeyLength" ("invalid Ed25519      *)
(* keypair size").  string and keypair_bytes are the two locals as the     *)
(* function leaves them when it returns: `string` is a Zeroizing<String>,  *)
(* zeroized when dropped; `keypair_bytes` is a plain [u8; 64], copied into *)
(* the keypair on success and otherwise left as decode_to_slice wrote it.  *)
Ed25519Keypair_deserialize(value, wrote) ==
    LET string == value
        d == Base64_decode_to_slice(string, Zeros(ED25519_KEYPAIR_SIZE), wrote)
    IN  IF d.err # "none" THEN
            [ res |-> "InvalidEncoding", keypair |-> <<>>,
              string |-> Zeroize(string), keypair_bytes |-> d.dst ]
        ELSE IF d.len # ED25519_KEYPAIR_SIZE THEN
            [ res |-> "InvalidKeyLength", keypair |-> <<>>,
              string |-> Zeroize(string), keypair_bytes |-> d.dst ]
        ELSE
            [ res |-> "Ok", keypair |-> d.dst,
              string |-> Zeroize(string), keypair_bytes |-> d.dst ]

\* Ed25519Keypair_serialize encoding only the secret half (&self.0[..32])
Ed25519Keypair_serialize_secret_half(self) ==
    Base64_encode(SubSeq(self, 1, KeyHalf))

\* private_key.rs:81-87
Ed25519Keypair_serialize(self) == Base64_encode(self)

\* an Ed25519Keypair without #[zeroize(drop)]: the memory is released as it is
Ed25519Keypair_drop_plain(self) == self

\* private_key.rs:38-39  #[derive(Zeroize)] #[zeroize(drop)]: Drop::drop
\* zeroizes the buffer; the result is what the released memory holds
Ed25519Keypair_drop(self) == Zeroize(self)

(***************************************************************************)
(* PrivateKey                                                              *)
(***************************************************************************)
\* private_key.rs:17  #[serde(rename = "tendermint/PrivKeyEd25519")]
Ed25519Tag == "tendermint/PrivKeyEd25519"

\* PrivateKey_deserialize falling back to the Ed25519 variant for any tag
PrivateKey_deserialize_any_tag(obj, wrote) ==
    Ed25519Keypair_deserialize(obj.value, wrote)

(* private_key.rs:13-19  #[derive(Deserialize)] #[serde(tag = "type",      *)
(* content = "value")]: the tag selects the variant, an unknown tag is     *)
(* serde's unknown-variant error and the content is not deserialized.      *)
PrivateKey_deserialize(obj, wrote) ==
    IF obj.type # Ed25519Tag THEN
        [ res |-> "UnknownScheme", keypair |-> <<>>,
          string |-> <<>>, keypair_bytes |-> <<>> ]
    ELSE Ed25519Keypair_deserialize(obj.value, wrote)

\* private_key.rs:13-19  #[derive(Serialize)]
PrivateKey_serialize(self) ==
    [ type |-> Ed25519Tag, value |-> Ed25519Keypair_serialize(self) ]

\* private_key.rs:23-27
PrivateKey_public_key(self) == Ed25519Keypair_public_key(self)

(***************************************************************************)
(* The wire objects given to deserialization.  A payload is the base64 of  *)
(* some key material, possibly damaged; the object records the material    *)
(* and whether the payload was left well formed, so that the outcome can   *)
(* be compared with what went in.                                          *)
(***************************************************************************)
SecretHalf(a) == [i \in 1..KeyHalf |-> (251 + 131 * a + 7 * (i - 1)) % 256]

PublicHalf(y) == [i \in 1..KeyHalf |-> IF i = 1 THEN y ELSE 0]

\* n bytes: a secret half, a public half, then bytes past the keypair size
Material(a, y, n) ==
    [i \in 1..n |->
        IF i <= KeyHalf THEN SecretHalf(a)[i]
        ELSE IF i <= ED25519_KEYPAIR_SIZE THEN PublicHalf(y)[i - KeyHalf]
        ELSE (a + 16 * i) % 256]

Lens == {0, KeyHalf}
        \cup ((ED25519_KEYPAIR_SIZE - MaxUnder)..(ED25519_KEYPAIR_SIZE + MaxOver))

Materials == { Material(a, y, n) : a \in 0..MaxSeed, y \in 0..MaxY, n \in Lens }

\* s with its character at position p replaced by c
Replace(s, p, c) == [i \in 1..Len(s) |-> IF i = p THEN c ELSE s[i]]

\* the damaged forms of a non-empty encoding: '!' for the first or the last
\* character (bad alphabet), '=' for the first character and the last three
\* characters cut off (bad padding)
Damaged(enc) ==
    { Replace(enc, 1, 33), Replace(enc, Len(enc), 33),
      Replace(enc, 1, 61), SubSeq(enc, 1, Len(enc) - 3) }

Tags == {Ed25519Tag, "tendermint/PrivKeySecp256k1", ""}

Inputs ==
    { [ type |-> t, value |-> Base64_encode(m), wellformed |-> TRUE,
        material |-> m ] : t \in Tags, m \in Materials }
    \cup
    UNION { { [ type |-> t, value |-> v, wellformed |-> FALSE, material |-> m ]
              : t \in Tags, v \in Damaged(Base64_encode(m)) }
            : m \in { x \in Materials : Len(x) > 0 } }

NoInput == [ type |-> "", value |-> <<>>, wellformed |-> TRUE, material |-> <<>> ]

NoWire == [ type |-> "", value |-> <<>> ]

(***************************************************************************)
(* State                                                                   *)
(***************************************************************************)
VARIABLES
    pc,             \* "start", "failed", "live", "unwinding", "dropped"
    input,          \* the wire object last given to PrivateKey::deserialize
    source,         \* where it came from: "none", "config", "wire"
    result,         \* "none", "Ok", "InvalidEncoding", "InvalidKeyLength",
                    \* "UnknownScheme"
    string,         \* deserialize's local `string`, as left at its return
    keypair_bytes,  \* deserialize's local `keypair_bytes`, as left at its return
    keypair,        \* the instance's buffer (self.0); after a drop, what the
                    \* released memory holds
    constructed,    \* the buffer as it was when the instance was constructed
    pk_calls,       \* public_key() calls made on the instance
    pk,             \* the keys those calls returned, in order
    seed_calls,     \* to_seed() calls made on the instance
    seeds,          \* the seeds those calls returned, in order
    wire,           \* the last serialized object
    origin,         \* the buffer that was serialized into `wire`
    path,           \* how the last instance was disposed of
    a,              \* two parts headers,
    b,
    ord,            \* the last Ord::cmp(a, b): "none", "Less", "Equal", "Greater"
    eq              \* the last a == b: "none", TRUE, FALSE

keyvars == << pc, input, source, result, string, keypair_bytes, keypair,
              constructed, pk_calls, pk, seed_calls, seeds, wire, origin, path >>
partsvars == << a, b, ord, eq >>
vars == << keyvars, partsvars >>

NoHeader == [ total |-> 0, hash |-> <<>> ]

KeyInit ==
    /\ pc = "start"
    /\ input = NoInput
    /\ source = "none"
    /\ result = "none"
    /\ string = <<>>
    /\ keypair_bytes = <<>>
    /\ keypair = <<>>
    /\ constructed = <<>>
    /\ pk_calls = 0
    /\ pk = <<>>
    /\ seed_calls = 0
    /\ seeds = <<>>
    /\ wire = NoWire
    /\ origin = <<>>
    /\ path = "none"

Init ==
    /\ KeyInit
    /\ a = NoHeader
    /\ b = NoHeader
    /\ ord = "none"
    /\ eq = "none"

(***************************************************************************)
(* Operations on the private key                                           *)
(***************************************************************************)
\* the state after PrivateKey::deserialize(obj) returned
Deserialized(obj, from, wrote) ==
    LET r == PrivateKey_deserialize(obj, wrote)
    IN  /\ input' = obj
        /\ source' = from
        /\ result' = r.res
        /\ string' = r.string
        /\ keypair_bytes' = r.keypair_bytes
        /\ keypair' = r.keypair
        /\ constructed' = r.keypair
        /\ pc' = IF r.res = "Ok" THEN "live" ELSE "failed"
        /\ pk_calls' = 0
        /\ pk' = <<>>
        /\ seed_calls' = 0
        /\ seeds' = <<>>
        /\ path' = "none"

\* a private key is parsed from configuration text
Deserialize ==
    /\ pc = "start"
    /\ \E obj \in Inputs, wrote \in BOOLEAN : Deserialized(obj, "config", wrote)
    /\ UNCHANGED << wire, origin, partsvars >>

\* the serialized key is parsed back, after the instance it came from is gone
DeserializeWire ==
    /\ pc = "dropped"
    /\ wire # NoWire
    /\ \E wrote \in BOOLEAN :
          Deserialized([ type |-> wire.type, value |-> wire.value,
                         wellformed |-> TRUE, material |-> origin ],
                       "wire", wrote)
    /\ wire' = NoWire
    /\ UNCHANGED << origin, partsvars >>

\* PrivateKey::public_key(&self); a panic starts unwinding
PublicKey ==
    /\ pc = "live"
    /\ pk_calls < MaxCalls
    /\ LET r == PrivateKey_public_key(keypair)
       IN  /\ pk_calls' = pk_calls + 1
           /\ pk' = IF r.panic THEN pk ELSE Append(pk, r.key)
           /\ pc' = IF r.panic THEN "unwinding" ELSE pc
    /\ UNCHANGED << input, source, result, string, keypair_bytes, keypair,
                    constructed, seed_calls, seeds, wire, origin, path,
                    partsvars >>

\* Ed25519Keypair::to_seed(&self), through PrivateKey::ed25519_keypair
ToSeed ==
    /\ pc = "live"
    /\ seed_calls < MaxCalls
    /\ LET r == Ed25519Keypair_to_seed(keypair)
       IN  /\ seed_calls' = seed_calls + 1
           /\ seeds' = IF r.panic THEN seeds ELSE Append(seeds, r.seed)
           /\ pc' = IF r.panic THEN "unwinding" ELSE pc
    /\ UNCHANGED << input, source, result, string, keypair_bytes, keypair,
                    constructed, pk_calls, pk, wire, origin, path, partsvars >>

\* PrivateKey::serialize(&self)
Serialize ==
    /\ pc = "live"
    /\ wire' = PrivateKey_serialize(keypair)
    /\ origin' = keypair
    /\ UNCHANGED << pc, input, source, result, string, keypair_bytes, keypair,
                    constructed, pk_calls, pk, seed_calls, seeds, path,
                    partsvars >>

\* the instance is dropped: Drop::drop runs, then the memory is released
Dropped(how) ==
    /\ keypair' = Ed25519Keypair_drop(keypair)
    /\ pc' = "dropped"
    /\ path' = how
    /\ UNCHANGED << input, source, result, string, keypair_bytes, constructed,
                    pk_calls, pk, seed_calls, seeds, wire, origin, partsvars >>

\* the owner's scope ends
ScopeExit == pc = "live" /\ Dropped("scope_exit")

\* drop(key)
Discard == pc = "live" /\ Dropped("discard")

\* a panic unwinds through the owner's frame
Unwind == pc = "unwinding" /\ Dropped("unwind")

Next ==
    \/ Deserialize
    \/ DeserializeWire
    \/ PublicKey
    \/ ToSeed
    \/ Serialize
    \/ ScopeExit
    \/ Discard
    \/ Unwind

Spec == Init /\ [][Next]_vars

(***************************************************************************)
(* Block parts header (block/parts.rs)                                     *)
(***************************************************************************)
\* number of bytes of a hash in the model
HashLen == 2

Hashes == [1..HashLen -> 0..MaxHashByte]

\* Ord for u64
u64_cmp(x, y) == IF x < y THEN "Less" ELSE IF x > y THEN "Greater" ELSE "Equal"

\* Ord for crate::Hash: the order of the hash bytes, first byte first
RECURSIVE Hash_cmp(_, _)
Hash_cmp(x, y) ==
    IF Len(x) = 0 \/ Len(y) = 0 THEN u64_cmp(Len(x), Len(y))
    ELSE IF x[1] # y[1] THEN u64_cmp(x[1], y[1])
    ELSE Hash_cmp(Tail(x), Tail(y))

\* parts.rs:22-24
Header_new(total, hash) == [ total |-> total, hash |-> hash ]

\* a derived Ord that compares `hash` before `total`
Header_cmp_hash_first(x, y) ==
    IF Hash_cmp(x.hash, y.hash) # "Equal" THEN Hash_cmp(x.hash, y.hash)
    ELSE u64_cmp(x.total, y.total)

\* parts.rs:10 #[derive(PartialOrd, Ord)]: the fields are compared in the
\* order of their declaration, `total` (line 14) then `hash` (line 17)
Header_cmp(x, y) ==
    IF u64_cmp(x.total, y.total) # "Equal" THEN u64_cmp(x.total, y.total)
    ELSE Hash_cmp(x.hash, y.hash)

\* parts.rs:10 #[derive(Eq, PartialEq)]: every field is equal
Header_eq(x, y) == x.total = y.total /\ Hash_cmp(x.hash, y.hash) = "Equal"

PartsInit ==
    /\ KeyInit
    /\ a \in { Header_new(t, h) : t \in 0..MaxTotal, h \in Hashes }
    /\ b \in { Header_new(t, h) : t \in 0..MaxTotal, h \in Hashes }
    /\ ord = "none"
    /\ eq = "none"

\* one of the two headers is replaced by a new one
NewHeader ==
    /\ \E t \in 0..MaxTotal, h \in Hashes :
          \/ a' = Header_new(t, h) /\ b' = b
          \/ b' = Header_new(t, h) /\ a' = a
    /\ ord' = "none"
    /\ eq' = "none"
    /\ UNCHANGED keyvars

\* a.cmp(&b) and a == b
Compare ==
    /\ ord = "none"
    /\ ord' = Header_cmp(a, b)
    /\ eq' = Header_eq(a, b)
    /\ UNCHANGED << a, b, keyvars >>

PartsNext == NewHeader \/ Compare

SpecParts == PartsInit /\ [][PartsNext]_vars

(***************************************************************************)
(* Properties                                                              *)
(***************************************************************************)
\* an Ed25519Keypair payload was deserialized from configuration text
KeypairParsed ==
    source = "config" /\ input.type = Ed25519Tag /\ result # "none"

HasSecret(bytes) == \E i \in 1..Len(bytes) : bytes[i] # 0

\* C1: deserializing an Ed25519Keypair succeeds only for a well-formed base64
\* payload that decodes to exactly 64 bytes; the keypair then holds exactly
\* those bytes, and for every other payload no keypair is constructed.
C1_DeserializeOnlyValid64 ==
    KeypairParsed =>
        /\ (result = "Ok") <=>
              (input.wellformed /\ Len(input.material) = ED25519_KEYPAIR_SIZE)
        /\ result = "Ok" =>
              /\ constructed = input.material
              /\ pc = "live" => keypair = input.material
        /\ result # "Ok" => pc = "failed" /\ constructed = <<>> /\ keypair = <<>>

C1_Witness ==
    /\ KeypairParsed
    /\ result = "Ok"
    /\ pc = "live"
    /\ keypair = input.material
    /\ HasSecret(keypair)

\* C2: every well-formed payload whose decoded length is not 64, shorter or
\* longer, fails with InvalidKeyLength ("invalid Ed25519 keypair size").
C2_WrongLengthIsKeyLengthError ==
    ( KeypairParsed /\ input.wellformed
      /\ Len(input.material) # ED25519_KEYPAIR_SIZE )
        => result = "InvalidKeyLength"

\* C3: every payload that is not well-formed base64 is answered with the
\* error value InvalidEncoding, and nothing panics.
C3_MalformedIsEncodingError ==
    (KeypairParsed /\ ~input.wellformed) =>
        result = "InvalidEncoding" /\ pc = "failed"

C3_Witness ==
    /\ KeypairParsed
    /\ ~input.wellformed
    /\ Len(input.value) % 4 = 0
    /\ result = "InvalidEncoding"

\* C4: a keypair's serialization deserializes successfully into a keypair
\* holding the identical 64 bytes.
C4_RoundTrip ==
    (source = "wire" /\ result # "none") =>
        /\ result = "Ok"
        /\ Len(origin) = ED25519_KEYPAIR_SIZE
        /\ constructed = origin
        /\ pc = "live" => keypair = origin

C4_Witness ==
    /\ source = "wire"
    /\ result = "Ok"
    /\ pc = "live"
    /\ keypair = origin
    /\ HasSecret(SubSeq(origin, 1, KeyHalf))
    /\ HasSecret(SubSeq(origin, KeyHalf + 1, ED25519_KEYPAIR_SIZE))

\* C5: on every constructed keypair each public_key() call returns the last
\* 32 bytes of the buffer (so two calls return identical bytes) and leaves
\* the buffer unchanged.
C5_PublicKeyIsLastHalf ==
    (pc \in {"live", "unwinding"} /\ pk_calls > 0) =>
        /\ Len(pk) = pk_calls
        /\ \A i \in 1..Len(pk) :
              pk[i] = SubSeq(constructed, KeyHalf + 1, ED25519_KEYPAIR_SIZE)
        /\ keypair = constructed

\* C6: no payload leads to a panic: deserialization returns an error value
\* or a keypair on which every public_key() and to_seed() call returns.
C6_NoPanic ==
    result # "none" =>
        /\ pc # "unwinding"
        /\ Len(pk) = pk_calls
        /\ Len(seeds) = seed_calls

\* C7: the temporary copies made by deserialize (the payload string and the
\* 64-byte decode buffer) are zero on every exit path: Ok, the encoding
\* error and the length error.
C7_TemporariesScrubbed ==
    result \in {"Ok", "InvalidEncoding", "InvalidKeyLength"} =>
        /\ string = Zeros(Len(input.value))
        /\ keypair_bytes = Zeros(ED25519_KEYPAIR_SIZE)

\* C8: however an instance stops being reachable (scope exit, discard,
\* unwinding), the memory of its buffer is all zeros when it is released.
C8_ZeroOnDrop ==
    pc = "dropped" =>
        /\ path \in {"scope_exit", "discard", "unwind"}
        /\ keypair = Zeros(ED25519_KEYPAIR_SIZE)

C8_Witness ==
    /\ pc = "dropped"
    /\ path = "unwind"
    /\ HasSecret(SubSeq(constructed, 1, KeyHalf))
    /\ keypair = Zeros(ED25519_KEYPAIR_SIZE)

\* C9: an object whose type is not "tendermint/PrivKeyEd25519" fails with
\* UnknownScheme whatever its value, and no key is constructed.
C9_UnknownTagFails ==
    (result # "none" /\ input.type # Ed25519Tag) =>
        /\ result = "UnknownScheme"
        /\ pc = "failed"
        /\ constructed = <<>>
        /\ keypair = <<>>

C9_Witness ==
    /\ input.type = "tendermint/PrivKeySecp256k1"
    /\ input.wellformed
    /\ Len(input.material) = ED25519_KEYPAIR_SIZE
    /\ result = "UnknownScheme"

\* x is before y in the order of the hash bytes
HashBefore(x, y) ==
    \E i \in 1..HashLen :
        /\ x[i] < y[i]
        /\ \A j \in 1..(i - 1) : x[j] = y[j]

\* C10: headers are ordered by (total, hash): a smaller total is Less
\* whatever the hashes; with equal totals the order is that of the hashes;
\* two headers are equal exactly when both fields are equal.
C10_HeaderOrder ==
    ord # "none" =>
        /\ a.total < b.total => ord = "Less"
        /\ a.total > b.total => ord = "Greater"
        /\ a.total = b.total =>
              /\ HashBefore(a.hash, b.hash) => ord = "Less"
              /\ HashBefore(b.hash, a.hash) => ord = "Greater"
              /\ a.hash = b.hash => ord = "Equal"
        /\ eq = (a.total = b.total /\ a.hash = b.hash)
        /\ eq = (ord = "Equal")

C10_Witness ==
    /\ ord = "Less"
    /\ a.total < b.total
    /\ HashBefore(b.hash, a.hash)
    /\ eq = FALSE

====
